---- MODULE Spec2Model ----
(***************************************************************************)
(* solana-watchtower (watchtower/src/main.rs): the poll loop of main(),    *)
(* its health checks, the selection of the first failure and the           *)
(* notification / duplicate-suppression step.                              *)
(*                                                                         *)
(* Strings built with format!() are strings, concatenated from their      *)
(* pieces (numbers rendered with ToString), so that two messages are equal *)
(* exactly when their texts are equal.                                     *)
(* u64 arithmetic is modelled on a WordBits-bit word: the wrap-around and  *)
(* overflow behaviour is that of Rust's u64, the width is scaled so that   *)
(* the model checker's integers can represent it. An overflow either       *)
(* panics (a build with overflow checks) or wraps (a build without): both  *)
(* outcomes are behaviours of the model. A panic ends the process.         *)
(***************************************************************************)
EXTENDS Integers, Sequences, FiniteSets, TLC

\* ---------------------------------------------------------------- bounds
\* Width of the machine word standing in for u64.
WordBits == 16
\* Largest transaction count an RPC answer carries in the model.
MaxTxCount == 1
\* Largest blockhash value in the model; 0 is Hash::default().
MaxHash == 1

U64Modulus == 2 ^ WordBits

\* A stake whose product with 100 does not fit the word.
BigStake == U64Modulus \div 64
\* A stake of which two do not fit the word.
HalfStake == U64Modulus \div 2

\* ------------------------------------------------------- program constants
\* main.rs:193, "current_stake_percent < 80"
StakeThresholdPercent == 80
\* main.rs:163, "total_current_stake * 100 / total_stake"
PercentScale == 100
\* solana_sdk::native_token::LAMPORTS_PER_SOL, used by lamports_to_sol (main.rs:226)
LAMPORTS_PER_SOL == 1000000000

\* ------------------------------------------------------------ input domains
Identities == {"A", "B"}

VoteAccountInfo(id, stake) == [node_pubkey |-> id, activated_stake |-> stake]

VoteAccounts(cur, del) == [current |-> cur, delinquent |-> del]

\* RpcVoteAccountStatus answers of get_vote_accounts: no validator at all, a
\* current stake of exactly 80%, of 79%, of 100%, a watched validator
\* delinquent, a watched validator missing, a current stake whose hundredfold
\* does not fit the word, and stakes whose sum does not fit the word.
VoteAccountStatuses ==
    { VoteAccounts(<<>>, <<>>),
      VoteAccounts(<< VoteAccountInfo("A", 4) >>, << VoteAccountInfo("B", 1) >>),
      VoteAccounts(<< VoteAccountInfo("A", 79) >>, << VoteAccountInfo("B", 21) >>),
      VoteAccounts(<< VoteAccountInfo("A", 4), VoteAccountInfo("B", 1) >>, <<>>),
      VoteAccounts(<< VoteAccountInfo("B", 4) >>, << VoteAccountInfo("A", 1) >>),
      VoteAccounts(<< VoteAccountInfo("B", 5) >>, <<>>),
      VoteAccounts(<< VoteAccountInfo("A", BigStake) >>, <<>>),
      VoteAccounts(<< VoteAccountInfo("A", HalfStake) >>, << VoteAccountInfo("B", HalfStake) >>) }

TransactionCounts == 0 .. MaxTxCount
Hashes == 0 .. MaxHash
HashDefault == 0

\* Texts of the transport errors an RPC call can return.
RpcErrors == {"E1", "E2"}

\* Result<T, ClientError> of one RPC call.
Ok(v) == [ok |-> TRUE, value |-> v, err |-> ""]
Err(e) == [ok |-> FALSE, value |-> 0, err |-> e]

\* Results of get_balance for one identity: below, at the threshold, or an error.
BalanceResults == {Ok(LAMPORTS_PER_SOL - 1), Ok(LAMPORTS_PER_SOL), Err("E1")}

\* Values of Config.validator_identity_pubkeys.
IdentityLists == { <<>>, <<"A">>, <<"A", "B">> }

Configs ==
    [ validator_identity_pubkeys : IdentityLists,
      no_duplicate_notifications : BOOLEAN,
      monitor_active_stake : BOOLEAN ]

\* ------------------------------------------------------------------- state
VARIABLES
    config,                  \* main.rs:19-25, 128: Config, fixed after get_config()
    pc,                      \* main.rs:140-276: "fetch" (top of the loop) | "sleep" | "panicked"
    last_transaction_count,  \* main.rs:136
    last_recent_blockhash,   \* main.rs:137
    last_notification_msg,   \* main.rs:138
    cycle,                   \* main.rs:141-274: the iteration that has just run, what it
                             \* received (RPC answers, balances) and did (failures, failure,
                             \* notifier.send calls, datapoints); before holds the three
                             \* loop-carried variables as the iteration found them
    prev,                    \* history: what the iteration before it selected and sent
    last_fetched             \* history: transaction_count and recent_blockhash of the latest
                             \* snapshot whose checks ran in an iteration before it, and the
                             \* greatest transaction_count of all such snapshots

vars == << config, pc, last_transaction_count,
           last_recent_blockhash, last_notification_msg, cycle, prev, last_fetched >>

\* ------------------------------------------------------------ u64 arithmetic
\* a + b on the machine word: the wrapped value and whether it overflowed.
AddU64(a, b) == [val |-> (a + b) % U64Modulus, ovf |-> (a + b >= U64Modulus)]

\* a * b on the machine word.
MulU64(a, b) == [val |-> (a * b) % U64Modulus, ovf |-> (a * b >= U64Modulus)]

\* iter().fold(0, |acc, vote_account| acc + vote_account.activated_stake)
RECURSIVE FoldStake(_, _)
FoldStake(list, acc) ==
    IF list = <<>> THEN acc
    ELSE LET s == AddU64(acc.val, Head(list).activated_stake)
         IN FoldStake(Tail(list), [val |-> s.val, ovf |-> acc.ovf \/ s.ovf])

\* main.rs:153-163. checks: whether the build panics on arithmetic overflow
\* (a build with overflow checks) or wraps (one without). panic: the thread
\* panics before any check runs, on an overflow in a build with overflow checks
\* or on the division by a zero total_stake.
StakeSummary(vote_accounts, checks) ==
    LET cur == FoldStake(vote_accounts.current, [val |-> 0, ovf |-> FALSE])
        del == FoldStake(vote_accounts.delinquent, [val |-> 0, ovf |-> FALSE])
        tot == AddU64(cur.val, del.val)
        mul == MulU64(cur.val, PercentScale)
        overflowed == cur.ovf \/ del.ovf \/ tot.ovf \/ mul.ovf
        panics == (checks /\ overflowed) \/ tot.val = 0
    IN [ panic |-> panics,
         overflowed |-> overflowed,
         total_current_stake |-> cur.val,
         total_delinquent_stake |-> del.val,
         total_stake |-> tot.val,
         current_stake_percent |-> IF panics THEN 0 ELSE mul.val \div tot.val ]

\* ------------------------------------------------------------------ strings
\* format!("{}", n) of an integer.
Fmt(n) == ToString(n)

\* errors.join(",")
RECURSIVE Join(_)
Join(errors) ==
    IF errors = <<>> THEN ""
    ELSE IF Len(errors) = 1 THEN Head(errors)
    ELSE Head(errors) \o "," \o Join(Tail(errors))

\* One entry of the failures vector: (test name, error message).
Failure(test_name, error_message) ==
    [test_name |-> test_name, error_message |-> error_message]

\* Option<T> as a sequence of at most one element.
None == <<>>
Some(x) == << x >>

\* .iter().any(|vai| vai.node_pubkey == *validator_identity)
AnyNode(list, validator_identity) ==
    \E i \in 1 .. Len(list) : list[i].node_pubkey = validator_identity

\* lamports_to_sol: lamports as f64 / LAMPORTS_PER_SOL, kept as the exact quotient.
lamports_to_sol(lamports) == [lamports |-> lamports, per_sol |-> LAMPORTS_PER_SOL]

\* balance < 1.0
BelowOneSol(balance) == balance.lamports < balance.per_sol

\* The decimal digits of frac / scale (scale a power of ten), without trailing zeros.
RECURSIVE FractionDigits(_, _)
FractionDigits(frac, scale) ==
    IF frac = 0 THEN ""
    ELSE Fmt(frac \div (scale \div 10))
         \o FractionDigits(frac % (scale \div 10), scale \div 10)

\* format!("{}", balance) of an f64 number of SOL: the shortest decimal.
FmtSol(balance) ==
    LET whole == balance.lamports \div balance.per_sol
        frac == balance.lamports % balance.per_sol
    IN IF frac = 0 THEN Fmt(whole)
       ELSE Fmt(whole) \o "." \o FractionDigits(frac, balance.per_sol)

\* format!("{}", recent_blockhash): the hash's own text (base58 in the
\* program), different for different hashes.
FmtHash(h) == "hash" \o Fmt(h)

\* ------------------------------------------------------------- RPC answers
TcOk == {Ok(n) : n \in TransactionCounts}
BhOk == {Ok(h) : h \in Hashes}
VaOk == {Ok(v) : v \in VoteAccountStatuses}
RpcErr == {Err(e) : e \in RpcErrors}

\* The answer of a query that is not made, because an earlier one failed.
NotCalled == Err("not called")

\* What the three queries of get_cluster_info answer in one iteration: all
\* succeed, or one fails and the later ones are not made.
RpcAnswers ==
    [transaction_count : TcOk, recent_blockhash : BhOk, vote_accounts : VaOk]
    \cup [transaction_count : TcOk, recent_blockhash : BhOk, vote_accounts : RpcErr]
    \cup [transaction_count : TcOk, recent_blockhash : RpcErr, vote_accounts : {NotCalled}]
    \cup [transaction_count : RpcErr, recent_blockhash : {NotCalled}, vote_accounts : {NotCalled}]

\* main.rs:120-125. Each `?` returns the first error; the later queries are not made.
get_cluster_info(rpc) ==
    IF ~rpc.transaction_count.ok THEN Err(rpc.transaction_count.err)
    ELSE IF ~rpc.recent_blockhash.ok THEN Err(rpc.recent_blockhash.err)
    ELSE IF ~rpc.vote_accounts.ok THEN Err(rpc.vote_accounts.err)
    ELSE Ok([ transaction_count |-> rpc.transaction_count.value,
              recent_blockhash |-> rpc.recent_blockhash.value,
              vote_accounts |-> rpc.vote_accounts.value ])

\* ------------------------------------------------------------ health checks
\* Mutant of CheckTransactionCount: the count is stored also when the check fails.
CheckTransactionCountAlwaysStores(transaction_count, ltc) ==
    IF transaction_count > ltc
    THEN [last |-> transaction_count, failures |-> <<>>]
    ELSE [last |-> transaction_count,
          failures |-> << Failure("transaction-count",
                                  "Transaction count is not advancing: "
                                  \o Fmt(transaction_count) \o " <= " \o Fmt(ltc)) >>]

\* Mutant of CheckTransactionCount: an unchanged count passes.
CheckTransactionCountAllowsEqual(transaction_count, ltc) ==
    IF transaction_count >= ltc
    THEN [last |-> transaction_count, failures |-> <<>>]
    ELSE [last |-> ltc,
          failures |-> << Failure("transaction-count",
                                  "Transaction count is not advancing: "
                                  \o Fmt(transaction_count) \o " <= " \o Fmt(ltc)) >>]

\* main.rs:172-182: the transaction-count check and its update of last_transaction_count.
CheckTransactionCount(transaction_count, ltc) ==
    IF transaction_count > ltc
    THEN [last |-> transaction_count, failures |-> <<>>]
    ELSE [last |-> ltc,
          failures |-> << Failure("transaction-count",
                                  "Transaction count is not advancing: "
                                  \o Fmt(transaction_count) \o " <= " \o Fmt(ltc)) >>]

\* Mutant of CheckRecentBlockhash: last_recent_blockhash is not updated.
CheckRecentBlockhashKeepsLast(recent_blockhash, lbh) ==
    IF recent_blockhash # lbh
    THEN [last |-> lbh, failures |-> <<>>]
    ELSE [last |-> lbh,
          failures |-> << Failure("recent-blockhash",
                                  "Unable to get new blockhash: " \o FmtHash(recent_blockhash)) >>]

\* main.rs:184-191: the blockhash check and its update of last_recent_blockhash.
CheckRecentBlockhash(recent_blockhash, lbh) ==
    IF recent_blockhash # lbh
    THEN [last |-> recent_blockhash, failures |-> <<>>]
    ELSE [last |-> lbh,
          failures |-> << Failure("recent-blockhash",
                                  "Unable to get new blockhash: " \o FmtHash(recent_blockhash)) >>]

\* main.rs:193-198: the current-stake check.
CheckCurrentStake(cfg, current_stake_percent) ==
    IF cfg.monitor_active_stake /\ current_stake_percent < StakeThresholdPercent
    THEN << Failure("current-stake", "Current stake is " \o Fmt(current_stake_percent) \o "%") >>
    ELSE <<>>

\* Mutant of IdentityErrors: an identity absent from both lists is not reported.
IdentityErrorsIgnoresMissing(vote_accounts, validator_identity) ==
    IF AnyNode(vote_accounts.delinquent, validator_identity)
    THEN << validator_identity \o " delinquent" >>
    ELSE <<>>

\* main.rs:210-222: the entry one watched identity adds to errors, if any.
IdentityErrors(vote_accounts, validator_identity) ==
    IF AnyNode(vote_accounts.delinquent, validator_identity)
    THEN << validator_identity \o " delinquent" >>
    ELSE IF ~AnyNode(vote_accounts.current, validator_identity)
    THEN << validator_identity \o " missing" >>
    ELSE <<>>

\* Mutant of BalanceFailures: a failed lookup counts as a balance of zero.
BalanceFailuresErrIsZero(validator_identity, balance_result) ==
    IF ~balance_result.ok
    THEN << Failure("balance", validator_identity \o " has 0 SOL") >>
    ELSE IF BelowOneSol(lamports_to_sol(balance_result.value))
    THEN << Failure("balance",
                    validator_identity \o " has "
                    \o FmtSol(lamports_to_sol(balance_result.value)) \o " SOL") >>
    ELSE <<>>

\* main.rs:224-237: the failure one watched identity's balance lookup adds, if any.
\* An Err result only logs a warning.
BalanceFailures(validator_identity, balance_result) ==
    IF balance_result.ok /\ BelowOneSol(lamports_to_sol(balance_result.value))
    THEN << Failure("balance",
                    validator_identity \o " has "
                    \o FmtSol(lamports_to_sol(balance_result.value)) \o " SOL") >>
    ELSE <<>>

\* main.rs:209-238: the loop over the watched identities from index i on;
\* acc holds errors and the failures pushed by the loop so far.
RECURSIVE WatchLoop(_, _, _, _, _)
WatchLoop(identities, vote_accounts, balances, i, acc) ==
    IF i > Len(identities) THEN acc
    ELSE WatchLoop(identities, vote_accounts, balances, i + 1,
                   [ errors |-> acc.errors \o IdentityErrors(vote_accounts, identities[i]),
                     failures |-> acc.failures \o BalanceFailures(identities[i], balances[i]) ])

\* Mutant of CheckDelinquent: the aggregated delinquent failure is pushed
\* before the balance failures.
CheckDelinquentErrorsFirst(cfg, vote_accounts, balances) ==
    IF cfg.validator_identity_pubkeys = <<>>
    THEN IF vote_accounts.delinquent # <<>>
         THEN << Failure("delinquent",
                         Fmt(Len(vote_accounts.delinquent)) \o " delinquent validators") >>
         ELSE <<>>
    ELSE LET done == WatchLoop(cfg.validator_identity_pubkeys, vote_accounts, balances, 1,
                               [errors |-> <<>>, failures |-> <<>>])
         IN IF done.errors # <<>>
            THEN << Failure("delinquent", Join(done.errors)) >> \o done.failures
            ELSE done.failures

\* main.rs:200-243: the delinquency check, with or without watched identities.
CheckDelinquent(cfg, vote_accounts, balances) ==
    IF cfg.validator_identity_pubkeys = <<>>
    THEN IF vote_accounts.delinquent # <<>>
         THEN << Failure("delinquent",
                         Fmt(Len(vote_accounts.delinquent)) \o " delinquent validators") >>
         ELSE <<>>
    ELSE LET done == WatchLoop(cfg.validator_identity_pubkeys, vote_accounts, balances, 1,
                               [errors |-> <<>>, failures |-> <<>>])
         IN IF done.errors # <<>>
            THEN done.failures \o << Failure("delinquent", Join(done.errors)) >>
            ELSE done.failures

\* Mutant of FirstFailure: the last failure is reported.
LastFailure(failures) == IF failures = <<>> THEN None ELSE Some(failures[Len(failures)])

\* main.rs:248: failures.into_iter().next()
FirstFailure(failures) == IF failures = <<>> THEN None ELSE Some(Head(failures))

\* Mutant of Evaluate: the blockhash check runs before the transaction-count check.
EvaluateBlockhashFirst(cfg, snapshot, balances, stake, ltc, lbh) ==
    LET tx == CheckTransactionCount(snapshot.transaction_count, ltc)
        bh == CheckRecentBlockhash(snapshot.recent_blockhash, lbh)
        failures == bh.failures \o tx.failures
                    \o CheckCurrentStake(cfg, stake.current_stake_percent)
                    \o CheckDelinquent(cfg, snapshot.vote_accounts, balances)
    IN [ failures |-> failures,
         failure |-> FirstFailure(failures),
         last_transaction_count |-> tx.last,
         last_recent_blockhash |-> bh.last ]

\* main.rs:151-248: the Ok arm of the match. The failures vector in push order,
\* the failure reported (the first, if any) and the two updated counters.
Evaluate(cfg, snapshot, balances, stake, ltc, lbh) ==
    LET tx == CheckTransactionCount(snapshot.transaction_count, ltc)
        bh == CheckRecentBlockhash(snapshot.recent_blockhash, lbh)
        failures == tx.failures \o bh.failures
                    \o CheckCurrentStake(cfg, stake.current_stake_percent)
                    \o CheckDelinquent(cfg, snapshot.vote_accounts, balances)
    IN [ failures |-> failures,
         failure |-> FirstFailure(failures),
         last_transaction_count |-> tx.last,
         last_recent_blockhash |-> bh.last ]

\* --------------------------------------------------------- notification step
\* main.rs:255-258
NotificationMsg(failure) ==
    "solana-watchtower: Error: " \o failure.test_name \o ": " \o failure.error_message

\* main.rs:271
AllClearMsg == "solana-watchtower: All clear"

\* datapoint_info!("watchtower-sanity", ("ok", ..)), main.rs:253
SanityPoint(ok) == [name |-> "watchtower-sanity", ok |-> ok, test |-> "", err |-> ""]

\* datapoint_error!("watchtower-sanity-failure", ..), main.rs:262-266
SanityFailurePoint(failure) ==
    [ name |-> "watchtower-sanity-failure", ok |-> FALSE,
      test |-> failure.test_name, err |-> failure.error_message ]

\* Mutant of ShouldNotify: both conditions are required.
ShouldNotifyNeedsBoth(cfg, last_msg, notification_msg) ==
    ~cfg.no_duplicate_notifications /\ last_msg # notification_msg

\* Mutant of ShouldNotify: the negation of the flag is lost.
ShouldNotifyFlagInverted(cfg, last_msg, notification_msg) ==
    cfg.no_duplicate_notifications \/ last_msg # notification_msg

\* main.rs:259: whether the failure's notification is sent.
ShouldNotify(cfg, last_msg, notification_msg) ==
    ~cfg.no_duplicate_notifications \/ last_msg # notification_msg

\* Mutant of FailureStep: the failure datapoint is emitted only when the
\* notification is sent.
FailureStepPointOnlyWhenNotified(cfg, failure, last_msg) ==
    LET notification_msg == NotificationMsg(failure)
        notified == ShouldNotify(cfg, last_msg, notification_msg)
    IN [ sent |-> IF notified THEN << notification_msg >> ELSE <<>>,
         datapoints |-> IF notified
                        THEN << SanityPoint(FALSE), SanityFailurePoint(failure) >>
                        ELSE << SanityPoint(FALSE) >>,
         last_notification_msg |-> notification_msg ]

\* Mutant of FailureStep: the error message is stored instead of the
\* notification message.
FailureStepStoresErrorMessage(cfg, failure, last_msg) ==
    LET notification_msg == NotificationMsg(failure)
    IN [ sent |-> IF ShouldNotify(cfg, last_msg, notification_msg)
                  THEN << notification_msg >> ELSE <<>>,
         datapoints |-> << SanityPoint(FALSE), SanityFailurePoint(failure) >>,
         last_notification_msg |-> failure.error_message ]

\* main.rs:254-267: a failure was selected.
FailureStep(cfg, failure, last_msg) ==
    LET notification_msg == NotificationMsg(failure)
    IN [ sent |-> IF ShouldNotify(cfg, last_msg, notification_msg)
                  THEN << notification_msg >> ELSE <<>>,
         datapoints |-> << SanityPoint(FALSE), SanityFailurePoint(failure) >>,
         last_notification_msg |-> notification_msg ]

\* Mutant of ClearStep: "All clear" is sent without looking at last_notification_msg.
ClearStepAlwaysSends(last_msg) ==
    [ sent |-> << AllClearMsg >>,
      datapoints |-> << SanityPoint(TRUE) >>,
      last_notification_msg |-> "" ]

\* Mutant of ClearStep: last_notification_msg is not reset.
ClearStepKeepsMsg(last_msg) ==
    [ sent |-> IF last_msg # "" THEN << AllClearMsg >> ELSE <<>>,
      datapoints |-> << SanityPoint(TRUE) >>,
      last_notification_msg |-> last_msg ]

\* main.rs:268-274: no failure was selected.
ClearStep(last_msg) ==
    [ sent |-> IF last_msg # "" THEN << AllClearMsg >> ELSE <<>>,
      datapoints |-> << SanityPoint(TRUE) >>,
      last_notification_msg |-> "" ]

\* main.rs:253-274: the messages handed to notifier.send, the datapoints emitted
\* and the new last_notification_msg, for the failure selected (or none).
Notify(cfg, failure, last_msg) ==
    IF failure # None
    THEN FailureStep(cfg, failure[1], last_msg)
    ELSE ClearStep(last_msg)

\* -------------------------------------------------------------- iterations
NoSnapshot ==
    [transaction_count |-> 0, recent_blockhash |-> HashDefault,
     vote_accounts |-> VoteAccounts(<<>>, <<>>)]

NoStake == StakeSummary(VoteAccounts(<<>>, <<>>), FALSE)

\* The three loop-carried variables as a record.
Carried ==
    [ last_transaction_count |-> last_transaction_count,
      last_recent_blockhash |-> last_recent_blockhash,
      last_notification_msg |-> last_notification_msg ]

\* The record of an iteration: outcome is "evaluated" (the Ok arm ran to the
\* end), "rpc" (the Err arm) or "panic" (the thread panicked in the Ok arm),
\* and "none" before the first iteration.
CycleRecord(outcome, rpc, snapshot, balances, stake, failures, failure, out) ==
    [ outcome |-> outcome,
      rpc |-> rpc,
      snapshot |-> snapshot,
      balances |-> balances,
      stake |-> stake,
      failures |-> failures,
      failure |-> failure,
      before |-> Carried,
      sent |-> out.sent,
      datapoints |-> out.datapoints ]

NoOutput == [sent |-> <<>>, datapoints |-> <<>>]

\* What prev keeps of an iteration: its outcome, the failure it selected, what
\* it sent and, when it selected none, the last_notification_msg it cleared.
Summary(c) ==
    [ outcome |-> c.outcome, failure |-> c.failure, sent |-> c.sent,
      cleared_msg |-> IF c.failure = None THEN c.before.last_notification_msg ELSE "" ]

NoRpc ==
    [transaction_count |-> NotCalled, recent_blockhash |-> NotCalled,
     vote_accounts |-> NotCalled]

\* No iteration is running: before the first one and during each sleep.
NoCycle == CycleRecord("none", NoRpc, NoSnapshot, <<>>, NoStake, <<>>, None, NoOutput)

\* main.rs:128-138
Init ==
    /\ config \in Configs
    /\ pc = "fetch"
    /\ last_transaction_count = 0
    /\ last_recent_blockhash = HashDefault
    /\ last_notification_msg = ""
    /\ cycle = NoCycle
    /\ prev = Summary(cycle)
    /\ last_fetched = None

\* Mutant of IterationRpcError: the transaction count fetched before the
\* failing query is stored.
IterationRpcErrorStoresCount(rpc, err) ==
    LET failure == Some(Failure("rpc", err))
        out == Notify(config, failure, last_notification_msg)
    IN /\ cycle' = CycleRecord("rpc", rpc, NoSnapshot, <<>>, NoStake,
                               <<>>, failure, out)
       /\ last_notification_msg' = out.last_notification_msg
       /\ pc' = "sleep"
       /\ last_transaction_count' = IF rpc.transaction_count.ok
                                    THEN rpc.transaction_count.value
                                    ELSE last_transaction_count
       /\ UNCHANGED last_recent_blockhash

\* main.rs:250-275: get_cluster_info returned Err(err).
IterationRpcError(rpc, err) ==
    LET failure == Some(Failure("rpc", err))
        out == Notify(config, failure, last_notification_msg)
    IN /\ cycle' = CycleRecord("rpc", rpc, NoSnapshot, <<>>, NoStake,
                               <<>>, failure, out)
       /\ last_notification_msg' = out.last_notification_msg
       /\ pc' = "sleep"
       /\ UNCHANGED << last_transaction_count, last_recent_blockhash >>

\* main.rs:153-163: the stake arithmetic panics; the process ends.
IterationPanic(rpc, snapshot, stake) ==
    /\ cycle' = CycleRecord("panic", rpc, snapshot, <<>>, stake, <<>>, None, NoOutput)
    /\ pc' = "panicked"
    /\ UNCHANGED << last_transaction_count, last_recent_blockhash, last_notification_msg >>

\* main.rs:142-249 and 253-275: get_cluster_info returned a snapshot and the
\* stake arithmetic did not panic.
IterationEvaluated(rpc, snapshot, balances, stake) ==
    LET ev == Evaluate(config, snapshot, balances, stake,
                       last_transaction_count, last_recent_blockhash)
        out == Notify(config, ev.failure, last_notification_msg)
    IN /\ cycle' = CycleRecord("evaluated", rpc, snapshot, balances, stake,
                               ev.failures, ev.failure, out)
       /\ last_transaction_count' = ev.last_transaction_count
       /\ last_recent_blockhash' = ev.last_recent_blockhash
       /\ last_notification_msg' = out.last_notification_msg
       /\ pc' = "sleep"

\* The builds the stake arithmetic of a snapshot tells apart: with and without
\* overflow checks when it overflows, one otherwise.
Builds(vote_accounts) ==
    IF StakeSummary(vote_accounts, FALSE).overflowed THEN BOOLEAN ELSE {FALSE}

\* main.rs:140-274: one iteration of the loop, up to the sleep.
LoopIteration ==
    /\ pc = "fetch"
    /\ \E rpc \in RpcAnswers :
         LET info == get_cluster_info(rpc)
         IN IF ~info.ok
            THEN IterationRpcError(rpc, info.err)
            ELSE \E checks \in Builds(info.value.vote_accounts) :
                   LET stake == StakeSummary(info.value.vote_accounts, checks)
                   IN IF stake.panic
                      THEN IterationPanic(rpc, info.value, stake)
                      ELSE \E balances \in [1 .. Len(config.validator_identity_pubkeys)
                                            -> BalanceResults] :
                             IterationEvaluated(rpc, info.value, balances, stake)
    /\ UNCHANGED << config, prev, last_fetched >>

Max(a, b) == IF a >= b THEN a ELSE b

\* The greatest transaction_count of the snapshots whose checks ran in the
\* iterations that have ended, 0 if there is none.
MaxFetched == IF last_fetched = None THEN 0 ELSE last_fetched[1].max_transaction_count

\* main.rs:275-276: sleep(config.interval) and the end of the loop body, where
\* the iteration's locals are dropped. What the properties need of the
\* iteration is remembered in prev and last_fetched.
Sleep ==
    /\ pc = "sleep"
    /\ pc' = "fetch"
    /\ prev' = Summary(cycle)
    /\ last_fetched' = IF cycle.outcome = "evaluated"
                       THEN Some([ transaction_count |-> cycle.snapshot.transaction_count,
                                   recent_blockhash |-> cycle.snapshot.recent_blockhash,
                                   max_transaction_count |->
                                       Max(MaxFetched, cycle.snapshot.transaction_count) ])
                       ELSE last_fetched
    /\ cycle' = NoCycle
    /\ UNCHANGED << config, last_transaction_count, last_recent_blockhash,
                    last_notification_msg >>

Next == LoopIteration \/ Sleep

Spec == Init /\ [][Next]_vars

\* ================================================================ properties
\* An iteration has just run to its end (it is about to sleep).
Completed == pc = "sleep"

\* The iteration that has just run selected a failure / selected none.
Selected == Completed /\ cycle.failure # None
Clean == Completed /\ cycle.failure = None

\* The iteration before it selected a failure / selected none / did not exist.
PrevSelected == prev.outcome # "none" /\ prev.failure # None
PrevClean == prev.outcome # "none" /\ prev.failure = None
FirstIteration == prev.outcome = "none"

\* The notification message of the failure selected by the iteration / the one before.
CycleMsg == NotificationMsg(cycle.failure[1])
PrevMsg == NotificationMsg(prev.failure[1])

\* Two consecutive iterations have selected failures with the identical message.
SameMessageTwice == Selected /\ PrevSelected /\ CycleMsg = PrevMsg

\* C1 as stated: any two consecutive cycles that both select a failure with the
\* identical notification message send exactly one notification between them
\* when duplicate suppression is enabled, and one each when it is disabled.
C1_AnyTwoCyclesOneNotification ==
    SameMessageTwice =>
        IF config.no_duplicate_notifications
        THEN Len(prev.sent) + Len(cycle.sent) = 1
        ELSE Len(prev.sent) = 1 /\ Len(cycle.sent) = 1

\* C1 as amended: with duplicate suppression enabled the second of two
\* consecutive cycles that select the identical message sends nothing, so the
\* two cycles send exactly what the first one sent: one notification if the
\* first one notified, none if it was itself a suppressed repetition. With
\* suppression disabled each of the two cycles sends the message.
C1_SecondIdenticalCycleSuppressed ==
    SameMessageTwice =>
        IF config.no_duplicate_notifications
        THEN /\ cycle.sent = <<>>
             /\ prev.sent \in {<<>>, << PrevMsg >>}
             /\ Len(prev.sent) + Len(cycle.sent) = Len(prev.sent)
        ELSE prev.sent = << PrevMsg >> /\ cycle.sent = << CycleMsg >>

\* C1 witness: suppression enabled, the first of two identical failing cycles
\* notified and the second did not.
C1_Witness ==
    /\ SameMessageTwice
    /\ config.no_duplicate_notifications
    /\ prev.sent = << PrevMsg >>
    /\ cycle.sent = <<>>

C3_ClearToFiringNotifies ==
    /\ (FirstIteration \/ PrevClean) /\ Completed => cycle.before.last_notification_msg = ""
    /\ (Selected /\ cycle.before.last_notification_msg = "") => cycle.sent = << CycleMsg >>

\* C3 witness: fail(m), clean, fail(m) with suppression enabled: the clean
\* cycle sent the "All clear" for m and the cycle after it has sent m again.
C3_Witness ==
    /\ Selected /\ PrevClean
    /\ config.no_duplicate_notifications
    /\ prev.sent = << AllClearMsg >>
    /\ prev.cleared_msg = CycleMsg
    /\ cycle.sent = << CycleMsg >>

\* C4: after every completed cycle last_notification_msg is empty exactly when
\* the cycle selected no failure, and otherwise it is the cycle's formatted
\* message, which is not empty, whether or not a notification was sent; before
\* the first cycle it is empty.
C4_LastMsgTracksSelection ==
    /\ Completed => (last_notification_msg = "" <=> cycle.failure = None)
    /\ Selected => (last_notification_msg = CycleMsg /\ CycleMsg # "")
    /\ (FirstIteration /\ pc = "fetch") => last_notification_msg = ""

\* C4 witness: a failing cycle whose notification was suppressed has still
\* stored its message.
C4_Witness ==
    /\ Selected
    /\ cycle.sent = <<>>
    /\ last_notification_msg = CycleMsg

\* The failure datapoints an iteration emitted.
FailurePoints ==
    { i \in 1 .. Len(cycle.datapoints) : cycle.datapoints[i].name = "watchtower-sanity-failure" }

\* C5: a cycle sends at most one notification and emits at most one failure
\* datapoint however many checks fail, and what it acts upon is the first
\* element of its failures vector.
C5_OnlyFirstFailureActedUpon ==
    /\ Len(cycle.sent) <= 1
    /\ Cardinality(FailurePoints) <= 1
    /\ (Completed /\ cycle.outcome = "evaluated") =>
          /\ cycle.failures = <<>> <=> cycle.failure = None
          /\ cycle.failures # <<>> =>
                /\ cycle.failure = Some(cycle.failures[1])
                /\ cycle.sent \in {<<>>, << NotificationMsg(cycle.failures[1]) >>}
                /\ \A i \in FailurePoints :
                      cycle.datapoints[i] = SanityFailurePoint(cycle.failures[1])
                /\ Cardinality(FailurePoints) = 1

\* C5 witness: several checks failed in a cycle and the notification of the
\* first one was sent.
C5_Witness ==
    /\ Completed /\ cycle.outcome = "evaluated"
    /\ Len(cycle.failures) >= 3
    /\ cycle.failures[1].test_name # cycle.failures[2].test_name
    /\ cycle.sent = << NotificationMsg(cycle.failures[1]) >>

\* A query of get_cluster_info failed in the iteration that has just run.
QueryFailed ==
    \/ ~cycle.rpc.transaction_count.ok /\ cycle.rpc.transaction_count # NotCalled
    \/ ~cycle.rpc.recent_blockhash.ok /\ cycle.rpc.recent_blockhash # NotCalled
    \/ ~cycle.rpc.vote_accounts.ok /\ cycle.rpc.vote_accounts # NotCalled

\* The error text of the query that failed.
QueryError ==
    IF ~cycle.rpc.transaction_count.ok THEN cycle.rpc.transaction_count.err
    ELSE IF ~cycle.rpc.recent_blockhash.ok THEN cycle.rpc.recent_blockhash.err
    ELSE cycle.rpc.vote_accounts.err

\* C6: when one of the three snapshot queries fails, the cycle selects exactly
\* one failure, of kind "rpc" with the error text, evaluates no health check,
\* leaves last_transaction_count and last_recent_blockhash as they were, and
\* passes the failure through the notify / duplicate-suppression step, which
\* updates last_notification_msg.
C6_RpcErrorCycle ==
    (Completed /\ QueryFailed) =>
        /\ cycle.outcome = "rpc"
        /\ cycle.failure = Some(Failure("rpc", QueryError))
        /\ cycle.failures = <<>>
        /\ last_transaction_count = cycle.before.last_transaction_count
        /\ last_recent_blockhash = cycle.before.last_recent_blockhash
        /\ last_notification_msg = CycleMsg
        /\ cycle.sent = IF ShouldNotify(config, cycle.before.last_notification_msg, CycleMsg)
                        THEN << CycleMsg >> ELSE <<>>
        /\ Cardinality(FailurePoints) = 1

\* C6 witness: the third query failed after the first two had answered with a
\* higher transaction count and another blockhash than the ones kept, which
\* stayed as they were; the rpc failure was notified.
C6_Witness ==
    /\ Completed /\ QueryFailed
    /\ cycle.rpc.transaction_count.ok /\ cycle.rpc.recent_blockhash.ok
    /\ cycle.rpc.transaction_count.value > last_transaction_count
    /\ cycle.rpc.recent_blockhash.value # last_recent_blockhash
    /\ cycle.sent = << "solana-watchtower: Error: rpc: E2" >>

\* The checks of the iteration that has just run were evaluated.
Evaluated == Completed /\ cycle.outcome = "evaluated"

\* The failures vector of the iteration holds a failure of this kind.
HasFailure(kind) ==
    \E i \in 1 .. Len(cycle.failures) : cycle.failures[i].test_name = kind

\* C7 as stated, for two consecutive fetched snapshots whose checks ran: the
\* transaction-count check fails on the second when its count is at most the
\* first's, and passes, advancing last_transaction_count, when it is greater
\* than the first's.
C7_ComparedWithPreviousSnapshot ==
    (Evaluated /\ last_fetched # None) =>
        LET first == last_fetched[1].transaction_count
            second == cycle.snapshot.transaction_count
        IN /\ second <= first => HasFailure("transaction-count")
           /\ second > first => /\ ~HasFailure("transaction-count")
                                /\ last_transaction_count = second

\* C7 as amended: the check compares the count with last_transaction_count as
\* the earlier cycles left it, which is never less than the count of the
\* snapshot fetched before. So it fails when the second count is at most the
\* first's; it passes, and last_transaction_count advances to the second
\* count, exactly when the second count is greater than last_transaction_count;
\* a count greater than the first's but not than last_transaction_count fails.
C7_ComparedWithLastTransactionCount ==
    Evaluated =>
        LET second == cycle.snapshot.transaction_count
            kept == cycle.before.last_transaction_count
        IN /\ HasFailure("transaction-count") <=> second <= kept
           /\ last_transaction_count = IF second > kept THEN second ELSE kept
           /\ last_fetched # None =>
                 /\ last_fetched[1].transaction_count <= kept
                 /\ second <= last_fetched[1].transaction_count
                       => HasFailure("transaction-count")

\* C7 witness: the second count is greater than the first's and still fails,
\* because an earlier snapshot had a count at least as high.
C7_Witness ==
    /\ Evaluated /\ last_fetched # None
    /\ cycle.snapshot.transaction_count > last_fetched[1].transaction_count
    /\ cycle.snapshot.transaction_count <= cycle.before.last_transaction_count
    /\ HasFailure("transaction-count")
    /\ last_transaction_count = cycle.before.last_transaction_count

\* C8: on the second of two consecutive fetched snapshots with the same
\* recent_blockhash the blockhash check fails, whatever the first cycle
\* reported and whatever transport errors came between them; and it fails on
\* a first snapshot whose blockhash is the default hash.
C8_SameBlockhashFails ==
    Evaluated =>
        /\ (last_fetched # None
            /\ cycle.snapshot.recent_blockhash = last_fetched[1].recent_blockhash)
              => HasFailure("recent-blockhash")
        /\ (last_fetched = None /\ cycle.snapshot.recent_blockhash = HashDefault)
              => HasFailure("recent-blockhash")

\* C8 witness: the same non-default blockhash as in the snapshot fetched
\* before, with a transport-error cycle between the two, fails the check.
C8_Witness ==
    /\ Evaluated /\ last_fetched # None
    /\ prev.outcome = "rpc"
    /\ cycle.snapshot.recent_blockhash = last_fetched[1].recent_blockhash
    /\ cycle.snapshot.recent_blockhash # HashDefault
    /\ HasFailure("recent-blockhash")

\* The sum of the activated stakes of a list, as a number (no machine word).
RECURSIVE ExactStake(_)
ExactStake(list) ==
    IF list = <<>> THEN 0 ELSE Head(list).activated_stake + ExactStake(Tail(list))

\* floor(current * 100 / (current + delinquent)) of the iteration's snapshot.
ExactPercent ==
    (ExactStake(cycle.snapshot.vote_accounts.current) * 100)
    \div (ExactStake(cycle.snapshot.vote_accounts.current)
          + ExactStake(cycle.snapshot.vote_accounts.delinquent))

\* C9: with stake monitoring enabled the stake percent is
\* floor(current_stake * 100 / (current_stake + delinquent_stake)) and the
\* current-stake check fails exactly when that percent is below 80.
C9_StakePercentIsExactFloor ==
    (Evaluated /\ config.monitor_active_stake) =>
        /\ cycle.stake.current_stake_percent = ExactPercent
        /\ HasFailure("current-stake") <=> ExactPercent < 80

\* A snapshot was fetched in the iteration and its stakes sum to zero.
ZeroTotalStakeFetched ==
    /\ cycle.outcome \in {"evaluated", "panic"}
    /\ ExactStake(cycle.snapshot.vote_accounts.current)
       + ExactStake(cycle.snapshot.vote_accounts.delinquent) = 0

\* C10: on a fetched snapshot with zero total stake the stake check is skipped
\* and the cycle completes: the other checks are evaluated, the notify step
\* runs and the loop goes on to the next cycle.
C10_ZeroTotalStakeCompletes ==
    ZeroTotalStakeFetched =>
        /\ pc = "sleep"
        /\ cycle.outcome = "evaluated"
        /\ ~HasFailure("current-stake")
        /\ cycle.datapoints # <<>>

\* The text t occurs in the text s.
Contains(s, t) ==
    \E i \in 1 .. (Len(s) - Len(t) + 1) : SubSeq(s, i, i + Len(t) - 1) = t

\* Checks 1-3 passed in the iteration that has just run.
ChecksOneToThreePass ==
    /\ Evaluated
    /\ ~HasFailure("transaction-count")
    /\ ~HasFailure("recent-blockhash")
    /\ ~HasFailure("current-stake")

\* A is the only watched identity.
WatchesOnlyA == config.validator_identity_pubkeys = << "A" >>

\* A's place in the vote accounts of the iteration's snapshot.
ADelinquent == AnyNode(cycle.snapshot.vote_accounts.delinquent, "A")
AMissing ==
    /\ ~AnyNode(cycle.snapshot.vote_accounts.delinquent, "A")
    /\ ~AnyNode(cycle.snapshot.vote_accounts.current, "A")
ACurrent ==
    /\ ~AnyNode(cycle.snapshot.vote_accounts.delinquent, "A")
    /\ AnyNode(cycle.snapshot.vote_accounts.current, "A")

\* The balance lookup of the i-th watched identity answered with less than 1 SOL.
LowBalance(i) ==
    cycle.balances[i].ok /\ cycle.balances[i].value < LAMPORTS_PER_SOL

\* C11 as stated: with A the only watched identity and checks 1-3 passing, the
\* message reported for the cycle contains "A missing" when A is in neither
\* list and "A delinquent" when A is delinquent, and a balance below 1.0
\* produces a "balance" failure also when A is current.
C11_MissingOrDelinquentReported ==
    (ChecksOneToThreePass /\ WatchesOnlyA) =>
        /\ AMissing => (Selected /\ Contains(CycleMsg, "A missing"))
        /\ ADelinquent => (Selected /\ Contains(CycleMsg, "A delinquent"))
        /\ LowBalance(1) => HasFailure("balance")

\* C11 as amended: the message reported contains "A missing" / "A delinquent"
\* when A's balance lookup fails or answers 1.0 or more; when the balance is
\* below 1.0 the failure reported is the "balance" failure, also when A is
\* current, and the "delinquent" failure naming A as missing or delinquent is
\* the second entry of the failures vector, which is not reported.
C11_ReportedUnlessBalanceLow ==
    (ChecksOneToThreePass /\ WatchesOnlyA) =>
        /\ (AMissing /\ ~LowBalance(1)) =>
              /\ Selected /\ Contains(CycleMsg, "A missing")
              /\ last_notification_msg = CycleMsg
        /\ (ADelinquent /\ ~LowBalance(1)) =>
              /\ Selected /\ Contains(CycleMsg, "A delinquent")
              /\ last_notification_msg = CycleMsg
        /\ LowBalance(1) =>
              /\ Selected /\ cycle.failure[1].test_name = "balance"
              /\ cycle.failure[1].error_message = "A has 0.999999999 SOL"
              /\ ~Contains(CycleMsg, "A missing") /\ ~Contains(CycleMsg, "A delinquent")
              /\ ACurrent => Len(cycle.failures) = 1
              /\ AMissing =>
                    /\ Len(cycle.failures) = 2
                    /\ cycle.failures[2] = Failure("delinquent", "A missing")
              /\ ADelinquent =>
                    /\ Len(cycle.failures) = 2
                    /\ cycle.failures[2] = Failure("delinquent", "A delinquent")
        /\ (ACurrent /\ ~LowBalance(1)) => Clean

\* C11 witness: A is missing and its balance answer is not low: the message
\* reported, and sent, contains "A missing".
C11_Witness ==
    /\ ChecksOneToThreePass /\ WatchesOnlyA
    /\ AMissing /\ ~LowBalance(1) /\ cycle.balances[1].ok
    /\ cycle.sent = << "solana-watchtower: Error: delinquent: A missing" >>

\* The watched identities, and their positions in the configuration.
Watched == config.validator_identity_pubkeys
WatchedIndex == 1 .. Len(Watched)

\* The i-th watched identity is delinquent or missing in the iteration's snapshot.
NotHealthy(i) ==
    \/ AnyNode(cycle.snapshot.vote_accounts.delinquent, Watched[i])
    \/ ~AnyNode(cycle.snapshot.vote_accounts.current, Watched[i])

\* The balances of the iteration with the i-th answer replaced by exactly 1 SOL.
WithFullBalance(i) ==
    [j \in WatchedIndex |-> IF j = i THEN Ok(LAMPORTS_PER_SOL) ELSE cycle.balances[j]]

\* The failures vector the iteration would have built from these balances.
FailuresWith(balances) ==
    Evaluate(config, cycle.snapshot, balances, cycle.stake,
             cycle.before.last_transaction_count,
             cycle.before.last_recent_blockhash).failures

\* C12: a failed balance lookup of a watched identity adds no failure for it
\* and does not end the cycle: the other identities are still classified and
\* their balances looked up, and the failures vector is the one the cycle
\* would have built had that balance been 1.0 or more.
C12_BalanceLookupErrorIsSoft ==
    Evaluated =>
        \A i \in WatchedIndex :
            ~cycle.balances[i].ok =>
                /\ pc = "sleep"
                /\ cycle.datapoints # <<>>
                /\ \A k \in 1 .. Len(cycle.failures) :
                      cycle.failures[k].test_name = "balance"
                         => ~Contains(cycle.failures[k].error_message, Watched[i] \o " has ")
                /\ \A j \in WatchedIndex :
                      LowBalance(j) =>
                         \E k \in 1 .. Len(cycle.failures) :
                            cycle.failures[k] =
                               Failure("balance", Watched[j] \o " has 0.999999999 SOL")
                /\ HasFailure("delinquent") <=> \E j \in WatchedIndex : NotHealthy(j)
                /\ \A j \in WatchedIndex :
                      NotHealthy(j) =>
                         \E k \in 1 .. Len(cycle.failures) :
                            /\ cycle.failures[k].test_name = "delinquent"
                            /\ \/ Contains(cycle.failures[k].error_message,
                                           Watched[j] \o " delinquent")
                               \/ Contains(cycle.failures[k].error_message,
                                           Watched[j] \o " missing")
                /\ cycle.failures = FailuresWith(WithFullBalance(i))

\* C12 witness: the lookup of the first of two watched identities failed; the
\* second one's low balance and its delinquency are both in the failures vector.
C12_Witness ==
    /\ Evaluated
    /\ Watched = << "A", "B" >>
    /\ ~cycle.balances[1].ok
    /\ LowBalance(2)
    /\ cycle.failures = << Failure("balance", "B has 0.999999999 SOL"),
                           Failure("delinquent", "B delinquent") >>

\* C13: the monitor never stops: every cycle, whatever snapshot or transport
\* error it receives, reaches the sleep at its end and is followed by another
\* cycle, so the process is never in a state from which no fetch follows.
C13_MonitorNeverStops ==
    /\ pc \in {"fetch", "sleep"}
    /\ cycle.outcome # "panic"

\* C14: a cycle that selects a failure sends its notification exactly when
\* suppression is disabled or its message differs from last_notification_msg
\* as the cycle before left it; so with suppression enabled a message that
\* changes between consecutive cycles notifies on the change and a message
\* that stays the same does not notify again.
C14_NotifyIffDisabledOrChanged ==
    Selected =>
        /\ cycle.sent \in {<<>>, << CycleMsg >>}
        /\ cycle.sent = << CycleMsg >>
              <=> (\/ ~config.no_duplicate_notifications
                   \/ CycleMsg # cycle.before.last_notification_msg)
        /\ cycle.before.last_notification_msg = IF PrevSelected THEN PrevMsg ELSE ""
        /\ (config.no_duplicate_notifications /\ PrevSelected /\ CycleMsg # PrevMsg)
              => cycle.sent = << CycleMsg >>
        /\ (config.no_duplicate_notifications /\ PrevSelected /\ CycleMsg = PrevMsg)
              => cycle.sent = <<>>

\* C14 witness: with suppression enabled two consecutive cycles selected
\* failures of the same kind with different texts and both notified.
C14_Witness ==
    /\ Selected /\ PrevSelected
    /\ config.no_duplicate_notifications
    /\ cycle.failure[1].test_name = prev.failure[1].test_name
    /\ cycle.failure[1].error_message # prev.failure[1].error_message
    /\ prev.sent = << PrevMsg >>
    /\ cycle.sent = << CycleMsg >>

\* The kind of the failure reported by the iteration, "" if none.
ReportedKind == IF cycle.failure = None THEN "" ELSE cycle.failure[1].test_name

\* What the four checks of the iteration found, read off its inputs.
Check1Fails == cycle.snapshot.transaction_count <= cycle.before.last_transaction_count
Check2Fails == cycle.snapshot.recent_blockhash = cycle.before.last_recent_blockhash
Check3Fails ==
    config.monitor_active_stake /\ cycle.stake.current_stake_percent < 80
Check4Fails ==
    IF Watched = <<>>
    THEN cycle.snapshot.vote_accounts.delinquent # <<>>
    ELSE \E j \in WatchedIndex : NotHealthy(j) \/ LowBalance(j)

\* C15: on a fetched snapshot whose checks ran the failure reported follows
\* the order of the checks: transaction-count when check 1 fails,
\* recent-blockhash when check 1 passes and check 2 fails, current-stake when
\* checks 1 and 2 pass and check 3 fails, a delinquent or balance failure only
\* when checks 1-3 pass, and none exactly when every check passes.
C15_ReportedFollowsCheckOrder ==
    Evaluated =>
        /\ Check1Fails => ReportedKind = "transaction-count"
        /\ (~Check1Fails /\ Check2Fails) => ReportedKind = "recent-blockhash"
        /\ (~Check1Fails /\ ~Check2Fails /\ Check3Fails) => ReportedKind = "current-stake"
        /\ ReportedKind \in {"delinquent", "balance"}
              <=> (~Check1Fails /\ ~Check2Fails /\ ~Check3Fails /\ Check4Fails)
        /\ cycle.failure = None
              <=> (~Check1Fails /\ ~Check2Fails /\ ~Check3Fails /\ ~Check4Fails)

\* C15 witness: check 1 passed, checks 2, 3 and 4 failed, and the
\* recent-blockhash failure is the one reported.
C15_Witness ==
    /\ Evaluated
    /\ ~Check1Fails /\ Check2Fails /\ Check3Fails /\ Check4Fails
    /\ Len(cycle.failures) >= 3
    /\ ReportedKind = "recent-blockhash"

\* The node_pubkey of every entry of a list of vote accounts, in order.
NodePubkeys(list) == [i \in 1 .. Len(list) |-> list[i].node_pubkey]

\* Two results of get_vote_accounts that differ at most in activated_stake.
DifferOnlyInStake(va, vb) ==
    /\ NodePubkeys(va.current) = NodePubkeys(vb.current)
    /\ NodePubkeys(va.delinquent) = NodePubkeys(vb.delinquent)

\* The iteration received a snapshot with stake monitoring disabled.
FetchedUnmonitored ==
    /\ ~config.monitor_active_stake
    /\ cycle.outcome \in {"evaluated", "panic"}

\* What the iteration would have done, in the build given by checks and from
\* the state and configuration it started in, had get_vote_accounts returned
\* va: whether it completed and, if so, what it selected, sent and stored.
OutcomeWith(va, checks) ==
    LET stake == StakeSummary(va, checks)
        ev == Evaluate(config, [cycle.snapshot EXCEPT !.vote_accounts = va],
                       cycle.balances, stake,
                       cycle.before.last_transaction_count,
                       cycle.before.last_recent_blockhash)
        out == Notify(config, ev.failure, cycle.before.last_notification_msg)
    IN IF stake.panic
       THEN [ completed |-> FALSE, failure |-> None, sent |-> <<>>,
              after |-> cycle.before ]
       ELSE [ completed |-> TRUE, failure |-> ev.failure, sent |-> out.sent,
              after |-> [ last_transaction_count |-> ev.last_transaction_count,
                          last_recent_blockhash |-> ev.last_recent_blockhash,
                          last_notification_msg |-> out.last_notification_msg ] ]

\* What the iteration did.
ActualOutcome ==
    [ completed |-> cycle.outcome = "evaluated",
      failure |-> cycle.failure,
      sent |-> cycle.sent,
      after |-> Carried ]

\* C16: with monitor_active_stake false, an iteration that receives a
\* snapshot has the same outcome (selected failure, notification, resulting
\* state, completion) as it would have had on any snapshot that differs only
\* in the activated stakes, in some build that behaves as this iteration did.
C16_StakeValuesIrrelevantWhenUnmonitored ==
    FetchedUnmonitored =>
        \A va \in VoteAccountStatuses :
            DifferOnlyInStake(va, cycle.snapshot.vote_accounts) =>
                \E checks \in BOOLEAN :
                    /\ StakeSummary(cycle.snapshot.vote_accounts, checks) = cycle.stake
                    /\ OutcomeWith(va, checks) = ActualOutcome

\* The health datapoints an iteration emitted.
HealthPoints ==
    { i \in 1 .. Len(cycle.datapoints) : cycle.datapoints[i].name = "watchtower-sanity" }

\* C17: every cycle emits exactly one health datapoint, whose ok is true
\* exactly when the cycle selected no failure; a cycle that selects a failure,
\* an rpc failure included, emits exactly one failure datapoint with that
\* failure's kind and message, also when its notification is suppressed; a
\* cycle that selects none emits no failure datapoint.
C17_OneHealthPointOneFailurePoint ==
    Completed =>
        /\ Cardinality(HealthPoints) = 1
        /\ \A i \in HealthPoints : cycle.datapoints[i].ok = (cycle.failure = None)
        /\ Cardinality(FailurePoints) = IF cycle.failure = None THEN 0 ELSE 1
        /\ Len(cycle.datapoints) = Cardinality(HealthPoints) + Cardinality(FailurePoints)
        /\ \A i \in FailurePoints :
              /\ cycle.datapoints[i].test = cycle.failure[1].test_name
              /\ cycle.datapoints[i].err = cycle.failure[1].error_message

\* C17 witness: an rpc failure repeated with suppression enabled: nothing was
\* sent, and the health datapoint (ok false) and the failure datapoint were
\* emitted.
C17_Witness ==
    /\ Selected /\ SameMessageTwice
    /\ config.no_duplicate_notifications
    /\ cycle.outcome = "rpc"
    /\ cycle.sent = <<>>
    /\ cycle.datapoints = << SanityPoint(FALSE), SanityFailurePoint(cycle.failure[1]) >>

\* The greatest transaction_count of the snapshots whose checks have run, the
\* one of the iteration that has just run included.
MaxSeen ==
    IF cycle.outcome = "evaluated"
    THEN Max(MaxFetched, cycle.snapshot.transaction_count)
    ELSE MaxFetched

\* C18: last_transaction_count never decreases: at the top of the loop and
\* after every cycle it is the greatest transaction count of the snapshots
\* fetched so far (0 if none), also when another check of the cycle fails; so
\* a snapshot whose count is not above the greatest one seen before it fails
\* the transaction-count check.
C18_LastTransactionCountIsMaxSeen ==
    /\ pc \in {"fetch", "sleep"} => last_transaction_count = MaxSeen
    /\ Completed => last_transaction_count >= cycle.before.last_transaction_count
    /\ Completed => cycle.before.last_transaction_count = MaxFetched
    /\ (Evaluated /\ cycle.snapshot.transaction_count <= MaxFetched) =>
          /\ HasFailure("transaction-count")
          /\ last_transaction_count = MaxFetched
    /\ (Evaluated /\ cycle.snapshot.transaction_count > MaxFetched) =>
          /\ ~HasFailure("transaction-count")
          /\ last_transaction_count = cycle.snapshot.transaction_count

\* C18 witness: a snapshot with a lower count than one seen two or more
\* cycles earlier failed the transaction-count check and left
\* last_transaction_count at the greatest count.
C18_Witness ==
    /\ Evaluated /\ last_fetched # None
    /\ last_fetched[1].transaction_count < MaxFetched
    /\ cycle.snapshot.transaction_count < MaxFetched
    /\ HasFailure("transaction-count")
    /\ last_transaction_count = MaxFetched

\* A snapshot was fetched in the iteration and its stakes do not sum to zero.
NonZeroTotalStakeFetched ==
    /\ cycle.outcome \in {"evaluated", "panic"}
    /\ ~ZeroTotalStakeFetched

\* C19: on every snapshot with a non-zero total stake the stake arithmetic
\* (the two sums, their total and total_current_stake * 100) stays within the
\* machine word, so the iteration does not panic in it and
\* current_stake_percent is floor(current_stake * 100 / total), between 0
\* and 100.
C19_StakeArithmeticFitsWord ==
    NonZeroTotalStakeFetched =>
        /\ ~cycle.stake.overflowed
        /\ ~cycle.stake.panic
        /\ cycle.stake.total_stake
              = ExactStake(cycle.snapshot.vote_accounts.current)
                + ExactStake(cycle.snapshot.vote_accounts.delinquent)
        /\ cycle.stake.current_stake_percent = ExactPercent
        /\ cycle.stake.current_stake_percent \in 0 .. 100

\* The watched identities with a balance below 1.0, by index.
LowIdx == { i \in WatchedIndex : LowBalance(i) }

\* The index of the n-th watched identity with a low balance.
NthLow(n) ==
    CHOOSE i \in LowIdx : Cardinality({ j \in LowIdx : j < i }) = n - 1

\* The failures the delinquency check pushed: those after the failures of
\* checks 1-3.
EarlierKinds == {"transaction-count", "recent-blockhash", "current-stake"}
EarlierCount ==
    Cardinality({ k \in 1 .. Len(cycle.failures) :
                    cycle.failures[k].test_name \in EarlierKinds })
DelinquencyFailures ==
    SubSeq(cycle.failures, EarlierCount + 1, Len(cycle.failures))

\* s starts with t.
StartsWith(s, t) == Len(s) >= Len(t) /\ SubSeq(s, 1, Len(t)) = t

\* C20: with watched identities the delinquency check pushes one balance
\* failure per identity with a low balance, in configuration order, and after
\* them the single aggregated delinquent failure, if any identity is
\* delinquent or missing; so when checks 1-3 pass and both occur the failure
\* reported is the balance failure of the first low-balance identity.
C20_BalanceFailuresBeforeDelinquent ==
    (Evaluated /\ Watched # <<>>) =>
        LET low == Cardinality(LowIdx)
            sick == \E i \in WatchedIndex : NotHealthy(i)
            fs == DelinquencyFailures
        IN /\ \A k \in 1 .. EarlierCount : cycle.failures[k].test_name \in EarlierKinds
           /\ Len(fs) = low + (IF sick THEN 1 ELSE 0)
           /\ \A n \in 1 .. low :
                 /\ fs[n].test_name = "balance"
                 /\ StartsWith(fs[n].error_message, Watched[NthLow(n)] \o " has ")
           /\ sick => fs[Len(fs)].test_name = "delinquent"
           /\ (ChecksOneToThreePass /\ low > 0 /\ sick) =>
                 /\ cycle.failure = Some(fs[1])
                 /\ ReportedKind = "balance"
                 /\ StartsWith(cycle.failure[1].error_message, Watched[NthLow(1)] \o " has ")

\* C20 witness: both watched identities have a low balance and B is
\* delinquent; the failures are the two balance failures and then the
\* delinquent one, and the notification sent is about A's balance.
C20_Witness ==
    /\ Evaluated /\ ChecksOneToThreePass
    /\ Watched = << "A", "B" >>
    /\ LowIdx = {1, 2}
    /\ NotHealthy(2)
    /\ cycle.failures = << Failure("balance", "A has 0.999999999 SOL"),
                           Failure("balance", "B has 0.999999999 SOL"),
                           Failure("delinquent", "B delinquent") >>
    /\ cycle.sent = << "solana-watchtower: Error: balance: A has 0.999999999 SOL" >>
====
